---- MODULE Spec2Model ----
(***************************************************************************)
(* A model of the f5xc-api-fixed core: the adaptive RateLimiter of         *)
(* scripts/utils/auth.py, the SpecReconciler of scripts/reconcile.py and   *)
(* the ConstraintValidator of scripts/utils/constraint_validator.py.       *)
(*                                                                         *)
(* Time is counted in ticks of 0.1 s, the smallest duration the limiter    *)
(* uses (its 0.1 s safety margin): 60 s is 600 ticks, the default          *)
(* min_request_interval of 0.5 s is 5 ticks, the default initial_backoff   *)
(* of 1.0 s is 10 ticks.  The float factors of RateLimitConfig are kept    *)
(* in tenths (0.8 is 8, 1.1 is 11); int(rpm * factor) is then              *)
(* (rpm * tenths) \div 10, which is what the float product truncates to.   *)
(***************************************************************************)
EXTENDS Integers, Sequences, FiniteSets, TLC

(***************************************************************************)
(* Bounds of the model.                                                    *)
(***************************************************************************)
NumCallers == 2
MaxClock == 640
MaxAdmits == 7
MaxHits == 8
MaxRpm == 20
MaxBound == 3
MaxRequests == 2

(***************************************************************************)
(* Constants of the program.                                               *)
(***************************************************************************)
Window == 600
SafetyMargin == 1
MinRpm == 5
DequeMaxLen == 100

Callers == 1..NumCallers

\* F5XCAuth.retries: the default of 3, and smaller budgets.
DefaultRetries == 3
RetriesSet == 0..DefaultRetries

Min(a, b) == IF a <= b THEN a ELSE b
Max(a, b) == IF a >= b THEN a ELSE b

\* RateLimitConfig with its defaults.
DefaultConfig ==
  [ requests_per_minute      |-> 30,
    min_request_interval     |-> 5,
    initial_backoff          |-> 10,
    max_backoff              |-> 600,
    backoff_multiplier       |-> 2,
    adaptive                 |-> TRUE,
    decrease_factor          |-> 8,
    increase_factor          |-> 11,
    success_streak_threshold |-> 50 ]

\* The configurations a limiter is constructed with: small baselines and a
\* short success streak, so that a window fills and the ceiling moves within
\* the bounds; adaptive on and off; a baseline below the floor of 5; a
\* decrease_factor above 1; a min_request_interval of 45 s, which a caller
\* arriving 30 s after the last request has to wait out in part.
Configs ==
  { [DefaultConfig EXCEPT !.requests_per_minute = 6, !.increase_factor = 15,
                          !.success_streak_threshold = 2],
    [DefaultConfig EXCEPT !.requests_per_minute = 6, !.adaptive = FALSE,
                          !.success_streak_threshold = 2],
    [DefaultConfig EXCEPT !.requests_per_minute = 3,
                          !.success_streak_threshold = 2],
    [DefaultConfig EXCEPT !.requests_per_minute = 6, !.decrease_factor = 15,
                          !.success_streak_threshold = 2],
    [DefaultConfig EXCEPT !.requests_per_minute = 6, !.min_request_interval = 450,
                          !.success_streak_threshold = 2] }

\* Time that passes between two steps of the callers, besides the time that
\* ends a sleep exactly: 30 s.
TickSet == {300}

\* How far a behaviour is explored: many admissions with at most one
\* rate-limit hit per run of hits, or many hits with few admissions.
Budgets ==
  { [admits |-> MaxAdmits, hits |-> 1],
    [admits |-> 2, hits |-> MaxHits] }

VARIABLES
  budget,            \* the exploration budget of the behaviour, one of Budgets
  config,            \* RateLimiter.config
  request_times,     \* RateLimiter._request_times, oldest first
  current_backoff,   \* RateLimiter._current_backoff
  success_streak,    \* RateLimiter._success_streak
  current_rpm,       \* RateLimiter._current_rpm
  lock,              \* RateLimiter._lock: 0 when free, else the caller holding it
  pc,                \* each caller's position in wait_if_needed
  wake,              \* the time a sleeping caller's time.sleep ends
  clock,             \* time.time()
  admitted,          \* history: the admission timestamps of the trailing window
  admits,            \* history: the number of admissions so far
  lastOp,            \* history: the operation that completed last
  returned,          \* history: the value the last record_rate_limit returned
  hits,              \* history: record_rate_limit calls since the last record_success
  arrivals           \* history: the callers inside wait_if_needed, in the order they called

VARIABLES
  files,             \* the schema files of original_dir, in the order reconcile_all visits them
  discrepancies,     \* the argument of reconcile_all
  fix_strategies,    \* SpecReconciler.config.fix_strategies
  results,           \* SpecReconciler.results
  phase,             \* where reconcile_all is: "next", "patching" or "returned"
  idx,               \* the index in files of the file being reconciled, or to reconcile next
  original,          \* _reconcile_file: the document as loaded
  fixed,             \* _reconcile_file: the clone the fixes are applied to
  pending,           \* _reconcile_file: the discrepancies of the file not yet applied
  result,            \* _reconcile_file: the ReconciliationResult being built
  last_fix,          \* history: what the last _apply_fix did
  verdicts,          \* history: per result, what validate() said of the clone
  fixed_is_original, \* _reconcile_file: whether `fixed` and `original` are one object
  changelog,         \* what generate_changelog returned last
  summary            \* what get_summary returned last

VARIABLES
  test_cases,        \* the list generate_test_cases returned last
  compared,          \* history: the last compare_results call and what it returned
  generated          \* history: the arguments of the last generate_test_cases call

VARIABLES
  retries,           \* F5XCAuth.retries
  requests,          \* history: the number of request calls so far
  attempt,           \* request: the loop variable, the number of attempts made
  last_exception,    \* request: the last transport error caught
  outcome,           \* request: "idle", "running", "returned" or "raised"
  raised,            \* history: the error the last request raised
  responses,         \* history: how each attempt of the request ended
  slept,             \* history: the time.sleep the last attempt ended with
  calls              \* history: the record_rate_limit calls the request made

limiterVars ==
  << budget, config, request_times, current_backoff, success_streak, current_rpm, lock,
     pc, wake, clock, admitted, admits, lastOp, returned, hits, arrivals >>

reconcilerVars ==
  << files, discrepancies, fix_strategies, results, phase, idx, original, fixed, pending, result,
     last_fix, verdicts, fixed_is_original, changelog, summary >>

validatorVars == << test_cases, compared, generated >>

requestVars ==
  << retries, requests, attempt, last_exception, outcome, raised, responses, slept, calls >>

vars == << limiterVars, reconcilerVars, validatorVars, requestVars >>

(***************************************************************************)
(* RateLimiter                                                             *)
(***************************************************************************)

\* Fault injected to test LockSerializes: a lock that anyone can take at any
\* time.
AlwaysAcquirable(l) == TRUE

\* Fault injected to test WaitReturns: a lock that is never released to a
\* waiting caller.
NeverAcquirable(l) == FALSE

\* `with self._lock`: the lock can be acquired when nobody holds it.
Acquirable(l) == l = 0

\* while self._request_times and now - self._request_times[0] > 60: popleft()
RECURSIVE Evict(_, _)
Evict(q, now) ==
  IF q # << >> /\ now - Head(q) > Window THEN Evict(Tail(q), now) ELSE q

\* deque(maxlen=100).append: a full deque drops its oldest entry.
DequeAppend(q, x) ==
  IF Len(q) >= DequeMaxLen THEN Append(Tail(q), x) ELSE Append(q, x)

\* The requests-per-minute check: the time to sleep, 0 when there is no sleep.
RpmWaitTime(q, now, rpm) ==
  IF Len(q) >= rpm
    THEN LET oldest == q[1]
             wait_time == Window - (now - oldest) + SafetyMargin
         IN IF wait_time > 0 THEN wait_time ELSE 0
    ELSE 0

\* Fault injected to test MinIntervalBetweenAdmissions: a limiter that never
\* sleeps for the minimum interval.
NoMinIntervalSleep(q, now, min_request_interval) == 0

\* The minimum-interval check: the time to sleep, 0 when there is no sleep.
MinIntervalSleep(q, now, min_request_interval) ==
  IF q # << >>
    THEN LET last_request == q[Len(q)]
             elapsed == now - last_request
         IN IF elapsed < min_request_interval
              THEN min_request_interval - elapsed
              ELSE 0
    ELSE 0

\* The ceiling record_success sets once the streak reached the threshold.
IncreasedRpm(rpm, cfg) ==
  LET new_rpm == Min((rpm * cfg.increase_factor) \div 10,
                     cfg.requests_per_minute * 2)
  IN IF new_rpm > rpm THEN new_rpm ELSE rpm

\* Fault injected to test RpmWithinBounds: a decrease without the floor of
\* 5 RPM.
UnflooredRpm(rpm, cfg) ==
  IF cfg.adaptive THEN (rpm * cfg.decrease_factor) \div 10 ELSE rpm

\* The ceiling record_rate_limit sets.
DecreasedRpm(rpm, cfg) ==
  IF cfg.adaptive
    THEN Max(MinRpm, (rpm * cfg.decrease_factor) \div 10)
    ELSE rpm

\* The backoff record_rate_limit keeps for the next hit.
GrownBackoff(backoff, cfg) ==
  Min(backoff * cfg.backoff_multiplier, cfg.max_backoff)

\* The entries of a history that the 60 s window ending at t holds.
InWindow(h, t) == { i \in 1..Len(h) : ~(t - h[i] > Window) }

\* self._request_times.append(time.time()), and the lock is released.
Admit(t, q) ==
  /\ request_times' = DequeAppend(q, clock)
  /\ admitted' = Append(Evict(admitted, clock), clock)
  /\ admits' = admits + 1
  /\ lock' = 0
  /\ pc' = [pc EXCEPT ![t] = "idle"]
  /\ wake' = [wake EXCEPT ![t] = 0]
  /\ lastOp' = "admit"
  /\ arrivals' = SelectSeq(arrivals, LAMBDA u : u # t)

\* time.sleep(d) with the lock held.
Sleep(t, q, d, where) ==
  /\ request_times' = q
  /\ lock' = t
  /\ pc' = [pc EXCEPT ![t] = where]
  /\ wake' = [wake EXCEPT ![t] = clock + d]
  /\ lastOp' = "none"
  /\ UNCHANGED << admitted, admits, arrivals >>

\* Lines 67-74 of wait_if_needed, with the value `now` holds there.
EnforceMinInterval(t, q, now) ==
  LET d == MinIntervalSleep(q, now, config.min_request_interval)
  IN IF d > 0 THEN Sleep(t, q, d, "min_sleep") ELSE Admit(t, q)

\* A caller calls wait_if_needed and reaches `with self._lock`.
WaitCall(t) ==
  /\ pc[t] = "idle"
  /\ admits + Cardinality({u \in Callers : pc[u] # "idle"}) < budget.admits
  /\ pc' = [pc EXCEPT ![t] = "blocked"]
  /\ arrivals' = Append(arrivals, t)
  /\ lastOp' = "none"
  /\ UNCHANGED << budget, config, request_times, current_backoff, success_streak,
                  current_rpm, lock, wake, clock, admitted, admits, returned,
                  hits, reconcilerVars, validatorVars, requestVars >>

\* The caller gets the lock: lines 52-66, up to the first sleep or the end.
WaitEnter(t) ==
  /\ pc[t] = "blocked"
  /\ Acquirable(lock)
  /\ LET now == clock
         q == Evict(request_times, now)
         w == RpmWaitTime(q, now, current_rpm)
     IN IF w > 0
          THEN Sleep(t, q, w, "rpm_sleep")
          ELSE EnforceMinInterval(t, q, now)
  /\ UNCHANGED << budget, config, current_backoff, success_streak, current_rpm,
                  clock, returned, hits, reconcilerVars, validatorVars, requestVars >>

\* The sleep of line 64 is over: now = time.time(), then lines 67-74.
WaitAfterRpmSleep(t) ==
  /\ pc[t] = "rpm_sleep"
  /\ clock >= wake[t]
  /\ EnforceMinInterval(t, request_times, clock)
  /\ UNCHANGED << budget, config, current_backoff, success_streak, current_rpm,
                  clock, returned, hits, reconcilerVars, validatorVars, requestVars >>

\* The sleep of line 72 is over: line 74.
WaitAfterMinSleep(t) ==
  /\ pc[t] = "min_sleep"
  /\ clock >= wake[t]
  /\ Admit(t, request_times)
  /\ UNCHANGED << budget, config, current_backoff, success_streak, current_rpm,
                  clock, returned, hits, reconcilerVars, validatorVars, requestVars >>

\* The body of record_success.
SuccessRecorded ==
  /\ IF ~config.adaptive
       THEN UNCHANGED << success_streak, current_backoff, current_rpm >>
       ELSE /\ Acquirable(lock)
            /\ current_backoff' = config.initial_backoff
            /\ IF success_streak + 1 >= config.success_streak_threshold
                 THEN /\ current_rpm' = IncreasedRpm(current_rpm, config)
                      /\ success_streak' = 0
                 ELSE /\ success_streak' = success_streak + 1
                      /\ UNCHANGED current_rpm
  /\ hits' = 0
  /\ lastOp' = "success"

\* Fault injected to test AttemptAdmittedThenReported: a rate-limit hit that
\* is not reported to the limiter.
RateLimitUnrecorded ==
  /\ returned' = current_backoff
  /\ lastOp' = "none"
  /\ UNCHANGED << success_streak, current_rpm, current_backoff, hits >>

\* The body of record_rate_limit.
RateLimitRecorded ==
  /\ Acquirable(lock)
  /\ success_streak' = 0
  /\ current_rpm' = DecreasedRpm(current_rpm, config)
  /\ returned' = current_backoff
  /\ current_backoff' = GrownBackoff(current_backoff, config)
  /\ hits' = hits + 1
  /\ lastOp' = "rate_limit"

\* record_success, called by a caller that is not inside wait_if_needed.
RecordSuccess ==
  /\ \E t \in Callers : pc[t] = "idle"
  /\ SuccessRecorded
  /\ UNCHANGED << budget, config, request_times, lock, pc, wake, clock, admitted,
                  admits, returned, arrivals, reconcilerVars, validatorVars, requestVars >>

\* record_rate_limit, called by a caller that is not inside wait_if_needed.
RecordRateLimit ==
  /\ \E t \in Callers : pc[t] = "idle"
  /\ hits < budget.hits
  /\ DecreasedRpm(current_rpm, config) <= MaxRpm
  /\ RateLimitRecorded
  /\ UNCHANGED << budget, config, request_times, lock, pc, wake, clock, admitted,
                  admits, arrivals, reconcilerVars, validatorVars, requestVars >>

\* The dict get_stats returns.
Stats ==
  [ current_rpm |-> current_rpm, success_streak |-> success_streak,
    current_backoff |-> current_backoff, requests_in_window |-> Len(request_times) ]

\* get_stats, called by a caller that is not inside wait_if_needed: it reads
\* the state under the lock and changes nothing.
GetStats ==
  /\ \E t \in Callers : pc[t] = "idle"
  /\ Acquirable(lock)
  /\ lastOp' = "stats"
  /\ UNCHANGED << budget, config, request_times, current_backoff, success_streak,
                  current_rpm, lock, pc, wake, clock, admitted, admits, returned,
                  hits, arrivals, reconcilerVars, validatorVars, requestVars >>

\* Time passes: by a tick, or up to the end of a caller's sleep.
Advance ==
  /\ \E d \in TickSet \cup { wake[t] - clock : t \in { u \in Callers : wake[u] > clock } } :
       /\ clock + d <= MaxClock
       /\ clock' = clock + d
  /\ lastOp' = "none"
  /\ UNCHANGED << budget, config, request_times, current_backoff, success_streak,
                  current_rpm, lock, pc, wake, admitted, admits, returned, hits,
                  arrivals, reconcilerVars, validatorVars, requestVars >>

(***************************************************************************)
(* F5XCAuth.request                                                        *)
(*                                                                         *)
(* One thread makes requests through its own limiter.  An attempt ends     *)
(* with a response that is not a 429, with a 429 and its Retry-After       *)
(* header, with a timeout or with a connection error.                      *)
(***************************************************************************)

\* The time wait_if_needed records when a single caller calls it at `now`:
\* lines 52-74, the two sleeps included.
AdmissionTime(q, now, rpm, cfg) ==
  LET evicted == Evict(q, now)
      after_rpm == now + RpmWaitTime(evicted, now, rpm)
  IN after_rpm + MinIntervalSleep(evicted, after_rpm, cfg.min_request_interval)

\* A Retry-After header: absent, not a number, or a number of ticks.
RetryAfter(given, number, value) == [given |-> given, number |-> number, value |-> value]
RetryAfters ==
  { RetryAfter(FALSE, FALSE, 0), RetryAfter(TRUE, FALSE, 0),
    RetryAfter(TRUE, TRUE, 5), RetryAfter(TRUE, TRUE, 300) }

\* Fault injected to test RateLimitedSleepsAndRetries: a request that ignores
\* Retry-After.
IgnoreRetryAfter(backoff, retry_after) == backoff

\* Lines 198-206: the time to sleep after a 429.
BackoffSleep(backoff, retry_after) ==
  IF retry_after.given /\ retry_after.number
    THEN Max(backoff, retry_after.value)
    ELSE backoff

\* Lines 222 and 229: the time to sleep after a transport error.
LinearBackoff(cfg, n) == cfg.initial_backoff * (n + 1)

\* How an attempt may end.
Response(kind, retry_after) == [kind |-> kind, retry_after |-> retry_after]
Responses ==
  { Response(k, RetryAfter(FALSE, FALSE, 0)) : k \in {"ok", "timeout", "request_error"} }
    \cup { Response("429", r) : r \in RetryAfters }

\* An exception and the attempt it was caught in; no exception.
Exception(kind, n) == [kind |-> kind, attempt |-> n]
NoException == Exception("none", 0)
RuntimeError == Exception("runtime_error", 0)

\* request is called.
RequestCall ==
  /\ outcome # "running"
  /\ requests < MaxRequests
  /\ requests' = requests + 1
  /\ outcome' = "running"
  /\ attempt' = 0
  /\ last_exception' = NoException
  /\ raised' = NoException
  /\ responses' = << >>
  /\ slept' = 0
  /\ calls' = 0
  /\ UNCHANGED << retries, limiterVars, reconcilerVars, validatorVars >>

\* One turn of the loop `for attempt in range(self.retries)`: wait_if_needed,
\* the HTTP request and what follows its response or its exception.
RequestAttempt ==
  /\ outcome = "running"
  /\ attempt < retries
  /\ \E resp \in Responses :
       LET at == AdmissionTime(request_times, clock, current_rpm, config)
       IN /\ request_times' = DequeAppend(Evict(request_times, clock), at)
          /\ admitted' = Append(Evict(admitted, at), at)
          /\ admits' = admits + 1
          /\ responses' = Append(responses, resp)
          /\ CASE resp.kind = "429" ->
                    /\ RateLimitRecorded
                    /\ calls' = calls + 1
                    /\ slept' = BackoffSleep(current_backoff, resp.retry_after)
                    /\ clock' = at + BackoffSleep(current_backoff, resp.retry_after)
                    /\ attempt' = attempt + 1
                    /\ UNCHANGED << last_exception, outcome >>
               [] resp.kind = "ok" ->
                    /\ SuccessRecorded
                    /\ outcome' = "returned"
                    /\ slept' = 0
                    /\ clock' = at
                    /\ UNCHANGED << returned, calls, attempt, last_exception >>
               [] OTHER ->
                    /\ last_exception' = Exception(resp.kind, attempt)
                    /\ slept' = LinearBackoff(config, attempt)
                    /\ clock' = at + LinearBackoff(config, attempt)
                    /\ attempt' = attempt + 1
                    /\ lastOp' = "admit"
                    /\ UNCHANGED << current_backoff, success_streak, current_rpm,
                                    returned, hits, calls, outcome >>
  /\ UNCHANGED << retries, requests, raised, budget, config, lock, pc, wake, arrivals,
                  reconcilerVars, validatorVars >>

\* The loop is over: raise last_exception or RuntimeError(...).
RequestRaise ==
  /\ outcome = "running"
  /\ attempt >= retries
  /\ outcome' = "raised"
  /\ raised' = IF last_exception # NoException THEN last_exception ELSE RuntimeError
  /\ UNCHANGED << retries, requests, attempt, last_exception, responses, slept, calls,
                  limiterVars, reconcilerVars, validatorVars >>

\* An F5XCAuth as constructed, with its own RateLimiter().
RequestInit ==
  /\ retries \in RetriesSet
  /\ requests = 0
  /\ attempt = 0
  /\ last_exception = NoException
  /\ outcome = "idle"
  /\ raised = NoException
  /\ responses = << >>
  /\ slept = 0
  /\ calls = 0

\* No F5XCAuth is in use.
RequestIdle ==
  /\ retries = 0
  /\ requests = 0
  /\ attempt = 0
  /\ last_exception = NoException
  /\ outcome = "idle"
  /\ raised = NoException
  /\ responses = << >>
  /\ slept = 0
  /\ calls = 0

RequestNext == RequestCall \/ RequestAttempt \/ RequestRaise

(***************************************************************************)
(* JSON documents                                                          *)
(*                                                                         *)
(* A JSON value is a record tagged with its Python type: None, bool, int,  *)
(* float (only the infinities occur), str, list, dict.  A dict is a        *)
(* function from its keys to JSON values.                                  *)
(***************************************************************************)
JsonV(kind, num, str, list, dict) ==
  [k |-> kind, n |-> num, s |-> str, l |-> list, d |-> dict]

NoneV == JsonV("none", 0, "", << >>, << >>)
BoolV(b) == JsonV("bool", IF b THEN 1 ELSE 0, "", << >>, << >>)
IntV(x) == JsonV("int", x, "", << >>, << >>)
PosInf == JsonV("inf", 1, "", << >>, << >>)
NegInf == JsonV("inf", -1, "", << >>, << >>)
StrV(x) == JsonV("str", 0, x, << >>, << >>)
ListV(x) == JsonV("list", 0, "", x, << >>)
DictV(f) == JsonV("dict", 0, "", << >>, f)

IsDict(v) == v.k = "dict"
IsList(v) == v.k = "list"
\* isinstance(v, int): bool is a subclass of int.
IsInt(v) == v.k \in {"int", "bool"}
\* isinstance(v, (int, float))
IsNumber(v) == v.k \in {"int", "bool", "inf"}

\* The truth value Python gives a value in `if not v` and `v or default`.
Truthy(v) ==
  CASE v.k = "none" -> FALSE
    [] v.k \in {"bool", "int"} -> v.n # 0
    [] v.k = "inf" -> TRUE
    [] v.k = "str" -> v.s # ""
    [] v.k = "list" -> v.l # << >>
    [] v.k = "dict" -> DOMAIN v.d # {}

\* v or default
OrElse(v, default) == IF Truthy(v) THEN v ELSE default

\* a < b on numbers, the infinities included.
Lt(a, b) ==
  IF a.k = "inf" THEN a.n < 0 /\ ~(b.k = "inf" /\ b.n < 0)
  ELSE IF b.k = "inf" THEN b.n > 0
  ELSE a.n < b.n

\* min(a, b) and max(a, b): the first argument when the two are equal.
PyMin(a, b) == IF Lt(b, a) THEN b ELSE a
PyMax(a, b) == IF Lt(a, b) THEN b ELSE a

Range(seq) == { seq[i] : i \in DOMAIN seq }

\* list(set): the elements once each, in an order the language leaves open.
ListsOfSet(S) ==
  { p \in [1..Cardinality(S) -> S] : \A i, j \in DOMAIN p : i # j => p[i] # p[j] }

\* key in dict, dict.get(key), dict[key] = val, dict.pop(key)
Has(v, key) == key \in DOMAIN v.d
Get(v, key) == IF Has(v, key) THEN v.d[key] ELSE NoneV
Put(v, key, val) ==
  DictV([x \in DOMAIN v.d \cup {key} |-> IF x = key THEN val ELSE v.d[x]])
Pop(v, key) == DictV([x \in DOMAIN v.d \ {key} |-> v.d[x]])

\* The value a key path leads to, and the document with that value replaced:
\* the in-place update of a nested dict reached by reference.
RECURSIVE At(_, _)
At(v, path) == IF path = << >> THEN v ELSE At(v.d[Head(path)], Tail(path))

RECURSIVE PutAt(_, _, _)
PutAt(v, path, nv) ==
  IF path = << >> THEN nv
  ELSE Put(v, Head(path), PutAt(v.d[Head(path)], Tail(path), nv))

(***************************************************************************)
(* SpecReconciler                                                          *)
(*                                                                         *)
(* The path of a Discrepancy is the list of its ":"-separated parts, its    *)
(* property_name the list of its "/"-separated parts; its recommendation,  *)
(* which nothing reads, is left out.                                       *)
(***************************************************************************)
Discrepancy(path, property_name, constraint_type, discrepancy_type, spec_value, api_behavior, test_values) ==
  [ path |-> path, property_name |-> property_name,
    constraint_type |-> constraint_type, discrepancy_type |-> discrepancy_type,
    spec_value |-> spec_value, api_behavior |-> api_behavior,
    test_values |-> test_values ]

\* load_discrepancies: a Discrepancy read from a validation report.
Reported(path, property_name, constraint_type, discrepancy_type, api_behavior) ==
  Discrepancy(path, property_name, constraint_type, discrepancy_type, NoneV,
              api_behavior, << >>)

\* ReconciliationConfig.fix_strategies by default.
DefaultFixStrategies ==
  [ tighter_spec |-> "relax", looser_spec |-> "tighten",
    missing_constraint |-> "add", extra_constraint |-> "remove" ]

\* The property path as the string it is: "/".join(parts).
RECURSIVE JoinPath(_)
JoinPath(parts) ==
  IF Len(parts) = 0 THEN ""
  ELSE IF Len(parts) = 1 THEN parts[1]
  ELSE parts[1] \o "/" \o JoinPath(Tail(parts))

\* The key path of the schema _find_schema returns, NotFound for None.
NotFound == << >>

\* The loop of _find_schema over the parts of the path, `at` leading to `current`.
RECURSIVE WalkParts(_, _, _)
WalkParts(spec, at, parts) ==
  LET current == At(spec, at)
  IN IF parts = << >>
       THEN IF IsDict(current) THEN at ELSE NotFound
       ELSE LET part == Head(parts)
            IN IF ~IsDict(current) THEN NotFound
               ELSE IF Has(current, part)
                 THEN WalkParts(spec, Append(at, part), Tail(parts))
               ELSE IF /\ Has(current, "properties")
                       /\ IsDict(current.d["properties"])
                       /\ Has(current.d["properties"], part)
                 THEN WalkParts(spec, at \o << "properties", part >>, Tail(parts))
               ELSE NotFound

\* Fault injected to test LookupExactThenWalk: a lookup that only walks the
\* parts of the path.
WalkOnly(spec, property_path) ==
  IF ~(Has(spec, "components") /\ Has(spec.d["components"], "schemas"))
    THEN NotFound
    ELSE WalkParts(spec, << "components", "schemas" >>, property_path)

\* _find_schema: the whole path as a schema name first, then the walk.
FindSchema(spec, property_path) ==
  IF ~(Has(spec, "components") /\ Has(spec.d["components"], "schemas"))
    THEN NotFound
  ELSE IF Has(spec.d["components"].d["schemas"], JoinPath(property_path))
    THEN << "components", "schemas", JoinPath(property_path) >>
  ELSE WalkParts(spec, << "components", "schemas" >>, property_path)

\* Fault injected to test RelaxTakesLooser: a relax that takes the observed
\* value whatever the declared one.
ObservedValue(constraint_type, old_value, api_behavior) == { api_behavior }

\* _calculate_relaxed_value: the values it may return.
CalculateRelaxedValue(constraint_type, old_value, api_behavior) ==
  CASE constraint_type = "minLength" /\ IsInt(api_behavior) ->
         { PyMin(OrElse(old_value, IntV(0)), api_behavior) }
    [] constraint_type = "maxLength" /\ IsInt(api_behavior) ->
         { PyMax(OrElse(old_value, IntV(0)), api_behavior) }
    [] constraint_type = "minimum" /\ IsNumber(api_behavior) ->
         { PyMin(OrElse(old_value, IntV(0)), api_behavior) }
    [] constraint_type = "maximum" /\ IsNumber(api_behavior) ->
         { PyMax(OrElse(old_value, IntV(0)), api_behavior) }
    [] constraint_type = "enum" /\ IsList(api_behavior) /\ IsList(old_value) ->
         { ListV(p) : p \in ListsOfSet(Range(old_value.l) \cup Range(api_behavior.l)) }
    [] OTHER -> { api_behavior }

\* _calculate_tightened_value: the values it may return.
CalculateTightenedValue(constraint_type, old_value, api_behavior) ==
  CASE constraint_type = "minLength" /\ IsInt(api_behavior) ->
         { PyMax(OrElse(old_value, IntV(0)), api_behavior) }
    [] constraint_type = "maxLength" /\ IsInt(api_behavior) ->
         { PyMin(OrElse(old_value, PosInf), api_behavior) }
    [] constraint_type = "minimum" /\ IsNumber(api_behavior) ->
         { PyMax(OrElse(old_value, NegInf), api_behavior) }
    [] constraint_type = "maximum" /\ IsNumber(api_behavior) ->
         { PyMin(OrElse(old_value, PosInf), api_behavior) }
    [] OTHER -> { api_behavior }

\* The fix_strategies a reconciler is configured with: the defaults, the empty
\* dict main passes when the configuration names none, and overrides of all
\* four categories, one of them with an action no fix implements.
EmptyFixStrategies == [category \in {} |-> "skip"]
OverridingFixStrategies ==
  [ tighter_spec |-> "tighten", looser_spec |-> "ignore",
    missing_constraint |-> "remove", extra_constraint |-> "add" ]
FixStrategies == { DefaultFixStrategies, EmptyFixStrategies, OverridingFixStrategies }

\* Fault injected to test StrategyFromType: the configured overrides are not
\* consulted.
DefaultStrategy(d, strategies) ==
  CASE d.discrepancy_type = "spec_stricter" -> "relax"
    [] d.discrepancy_type = "spec_looser" -> "tighten"
    [] d.discrepancy_type = "missing_constraint" -> "add"
    [] d.discrepancy_type = "extra_constraint" -> "remove"
    [] OTHER -> "skip"

\* _get_fix_strategy
GetFixStrategy(d, strategies) ==
  LET get(key, default) ==
        IF key \in DOMAIN strategies THEN strategies[key] ELSE default
  IN CASE d.discrepancy_type = "spec_stricter" -> get("tighter_spec", "relax")
       [] d.discrepancy_type = "spec_looser" -> get("looser_spec", "tighten")
       [] d.discrepancy_type = "missing_constraint" -> get("missing_constraint", "add")
       [] d.discrepancy_type = "extra_constraint" -> get("extra_constraint", "remove")
       [] OTHER -> "skip"

\* What a fix returns when it changes nothing (None), and what it does then.
NoChange == [action |-> "none"]
Untouched(spec) == { [spec |-> spec, change |-> NoChange] }

\* `schema = self._find_schema(...)` followed by `if not schema: return None`.
SchemaFound(spec, d) ==
  LET at == FindSchema(spec, d.property_name)
  IN at # NotFound /\ Truthy(At(spec, at))

\* _relax_constraint and _tighten_constraint, which differ in the calculation
\* and in the action they record: the documents and change entries they may leave.
AdjustConstraint(spec, d, action, new_values) ==
  LET at == FindSchema(spec, d.property_name)
      schema == At(spec, at)
      constraint_type == d.constraint_type
      old_value == Get(schema, constraint_type)
  IN { IF new_value # NoneV /\ new_value # old_value
         THEN [ spec |-> PutAt(spec, at, Put(schema, constraint_type, new_value)),
                change |-> [ action |-> action, path |-> d.path,
                             property |-> d.property_name,
                             constraint |-> constraint_type,
                             old_value |-> old_value, new_value |-> new_value ] ]
         ELSE [ spec |-> spec, change |-> NoChange ]
       : new_value \in new_values }

RelaxConstraint(spec, d) ==
  IF ~SchemaFound(spec, d) THEN Untouched(spec)
  ELSE LET schema == At(spec, FindSchema(spec, d.property_name))
       IN AdjustConstraint(spec, d, "relax",
            CalculateRelaxedValue(d.constraint_type,
                                  Get(schema, d.constraint_type), d.api_behavior))

TightenConstraint(spec, d) ==
  IF ~SchemaFound(spec, d) THEN Untouched(spec)
  ELSE LET schema == At(spec, FindSchema(spec, d.property_name))
       IN AdjustConstraint(spec, d, "tighten",
            CalculateTightenedValue(d.constraint_type,
                                    Get(schema, d.constraint_type), d.api_behavior))

AddConstraint(spec, d) ==
  IF ~SchemaFound(spec, d) THEN Untouched(spec)
  ELSE LET at == FindSchema(spec, d.property_name)
           schema == At(spec, at)
           new_value == d.api_behavior
       IN IF ~Has(schema, d.constraint_type)
            THEN { [ spec |-> PutAt(spec, at, Put(schema, d.constraint_type, new_value)),
                     change |-> [ action |-> "add", path |-> d.path,
                                  property |-> d.property_name,
                                  constraint |-> d.constraint_type,
                                  new_value |-> new_value ] ] }
            ELSE Untouched(spec)

RemoveConstraint(spec, d) ==
  IF ~SchemaFound(spec, d) THEN Untouched(spec)
  ELSE LET at == FindSchema(spec, d.property_name)
           schema == At(spec, at)
       IN IF Has(schema, d.constraint_type)
            THEN { [ spec |-> PutAt(spec, at, Pop(schema, d.constraint_type)),
                     change |-> [ action |-> "remove", path |-> d.path,
                                  property |-> d.property_name,
                                  constraint |-> d.constraint_type,
                                  old_value |-> schema.d[d.constraint_type] ] ] }
            ELSE Untouched(spec)

\* _apply_fix
ApplyFix(spec, d, strategies) ==
  LET fix_strategy == GetFixStrategy(d, strategies)
  IN CASE fix_strategy = "relax" -> RelaxConstraint(spec, d)
       [] fix_strategy = "tighten" -> TightenConstraint(spec, d)
       [] fix_strategy = "add" -> AddConstraint(spec, d)
       [] fix_strategy = "remove" -> RemoveConstraint(spec, d)
       [] OTHER -> Untouched(spec)

\* Fault injected to test ModifiedIffAlteredAndValid: every file gets every
\* discrepancy.
EveryDiscrepancy(name, ds) == ds

\* _group_by_file and discrepancies_by_file.get(name, []): the filename of a
\* discrepancy is what precedes the first ":" of its path.
DiscrepanciesOf(name, ds) == SelectSeq(ds, LAMBDA d : d.path[1] = name)

\* Fault injected to test EveryLoadedResultInOneOutcome: a result that starts
\* out as modified.
ModifiedResult(filename) ==
  [ filename |-> filename, modified |-> TRUE, changes |-> << >>,
    fixed_spec |-> NoneV, validation_errors |-> << >> ]

\* ReconciliationResult(filename=..., modified=False)
NewResult(filename) ==
  [ filename |-> filename, modified |-> FALSE, changes |-> << >>,
    fixed_spec |-> NoneV, validation_errors |-> << >> ]

\* Fault injected to test RollbackKeepsOriginal: the patched clone is kept
\* whatever validate says.
KeepPatched(r, orig, fx, valid) ==
  IF r.modified THEN [r EXCEPT !.fixed_spec = fx] ELSE [r EXCEPT !.fixed_spec = orig]

\* Lines 156-173 of _reconcile_file: `valid` is whether validate(fixed) returns.
ValidatedResult(r, orig, fx, valid) ==
  IF r.modified
    THEN IF valid
           THEN [r EXCEPT !.fixed_spec = fx]
           ELSE [r EXCEPT !.validation_errors = Append(@, "invalid"),
                          !.fixed_spec = orig,
                          !.modified = FALSE]
    ELSE [r EXCEPT !.fixed_spec = orig]

\* Fault injected to test PatchesACloneAtomically: a clone that is the
\* original object itself.
SameObject(doc) == [doc |-> doc, same |-> TRUE]

\* copy.deepcopy(original): an equal document that is another object.
DeepCopy(doc) == [doc |-> doc, same |-> FALSE]

\* change.get(key, "")
ChangeGet(change, key) == IF key \in DOMAIN change THEN change[key] ELSE StrV("")

\* The bullet generate_changelog writes for a change: none for an action it
\* does not know.
Bullets(change) ==
  LET action == IF "action" \in DOMAIN change THEN change.action ELSE "unknown"
      constraint == ChangeGet(change, "constraint")
      prop == ChangeGet(change, "property")
      old_val == ChangeGet(change, "old_value")
      new_val == ChangeGet(change, "new_value")
  IN CASE action = "relax" -> << << "Relaxed", constraint, prop, old_val, new_val >> >>
       [] action = "tighten" -> << << "Tightened", constraint, prop, old_val, new_val >> >>
       [] action = "add" -> << << "Added", constraint, prop, new_val >> >>
       [] action = "remove" -> << << "Removed", constraint, prop, old_val >> >>
       [] OTHER -> << >>

RECURSIVE BulletList(_)
BulletList(changes) ==
  IF changes = << >> THEN << >>
  ELSE Bullets(Head(changes)) \o BulletList(Tail(changes))

\* Fault injected to test ChangelogFollowsChanges: a changelog of every
\* result that recorded a change.
ChangelogOfChanged(rs) ==
  LET modified == SelectSeq(rs, LAMBDA r : r.changes # << >>)
  IN [ no_modifications |-> modified = << >>,
       sections |-> [ i \in 1..Len(modified) |->
                        [ filename |-> modified[i].filename,
                          bullets |-> BulletList(modified[i].changes) ] ] ]

\* generate_changelog: the "### filename" sections and their bullets, or the
\* line "*No modifications were required.*".
Changelog(rs) ==
  LET modified == SelectSeq(rs, LAMBDA r : r.modified)
  IN [ no_modifications |-> modified = << >>,
       sections |-> [ i \in 1..Len(modified) |->
                        [ filename |-> modified[i].filename,
                          bullets |-> BulletList(modified[i].changes) ] ] ]

RECURSIVE SumLen(_)
SumLen(rs) == IF rs = << >> THEN 0 ELSE Len(Head(rs).changes) + SumLen(Tail(rs))

\* get_summary; changes_by_file is a dict, so that a later result of a
\* filename replaces an earlier one.
Summary(rs) ==
  LET modified == SelectSeq(rs, LAMBDA r : r.modified)
      unmodified == SelectSeq(rs, LAMBDA r : ~r.modified)
  IN [ total_files |-> Len(rs),
       modified_files |-> [ i \in 1..Len(modified) |-> modified[i].filename ],
       unmodified_files |-> [ i \in 1..Len(unmodified) |-> unmodified[i].filename ],
       total_changes |-> SumLen(modified),
       changes_by_file |->
         [ name \in { modified[i].filename : i \in 1..Len(modified) } |->
             LET last == CHOOSE i \in 1..Len(modified) :
                           /\ modified[i].filename = name
                           /\ \A j \in 1..Len(modified) :
                                modified[j].filename = name => j <= i
             IN modified[last].changes ] ]

NotReported == [reported |-> FALSE]

\* The declared bounds and the observed values the documents and the
\* discrepancies are built from.
OldValues == {-5, 0, 50}
ObservedValues == {-7, 0, 5, 80}
ConstraintTypes == {"minLength", "maxLength", "minimum", "maximum", "enum"}

\* A schema node that declares every bound as v and an enum, one that
\* declares none, and one with a nested property.
DeclaringNode(v) ==
  DictV([ type |-> StrV("string"), minLength |-> IntV(v), maxLength |-> IntV(v),
          minimum |-> IntV(v), maximum |-> IntV(v),
          enum |-> ListV(<< "a", "b" >>) ])
BareNode == DictV([ type |-> StrV("string") ])
EmptyNode == DictV([ key \in {} |-> NoneV ])
NestingNode ==
  DictV([ type |-> StrV("object"),
          properties |-> DictV([ name |-> DictV([ type |-> StrV("string"),
                                                  maxLength |-> IntV(50) ]) ]) ])

Document(node) ==
  DictV([ openapi |-> StrV("3.0.0"),
          components |-> DictV([ schemas |-> DictV([ User |-> node ]) ]) ])

\* A node that has a child "name" besides its property "name", and a
\* document in which the whole path "User/name" names a schema as well.
LeafNode(v) == DictV([ type |-> StrV("string"), maxLength |-> IntV(v) ])
ShadowingNode ==
  DictV([ type |-> StrV("object"),
          name |-> LeafNode(10),
          properties |-> DictV([ name |-> LeafNode(20) ]) ])
ExactDocument ==
  DictV([ openapi |-> StrV("3.0.0"),
          components |->
            DictV([ schemas |->
              DictV([x \in {"User", "User/name"} |->
                       IF x = "User" THEN ShadowingNode ELSE LeafNode(30)]) ]) ])

Documents ==
  { Document(DeclaringNode(v)) : v \in OldValues }
    \cup { Document(BareNode), Document(NestingNode), Document(EmptyNode),
           Document(ShadowingNode), ExactDocument }

\* The files of original_dir: the *.json files come before the *.yaml files;
\* a file either loads as a document or fails to load.
SchemaFile(name, loads, doc) == [name |-> name, loads |-> loads, doc |-> doc]
FileLists ==
  { << a, b >> :
      a \in { SchemaFile("a.json", TRUE, doc) : doc \in Documents }
              \cup { SchemaFile("a.json", FALSE, NoneV) },
      b \in { SchemaFile("b.yaml", TRUE, Document(DeclaringNode(50))),
              SchemaFile("b.yaml", FALSE, NoneV) } }

Observed == { IntV(x) : x \in ObservedValues } \cup { ListV(<< "a", "c" >>) }
UserPath == << "a.json", "#/components/schemas/User" >>

FirstDiscrepancies ==
  { Reported(UserPath, << "User" >>, c, t, o) :
      c \in ConstraintTypes, t \in {"spec_stricter", "spec_looser"}, o \in Observed }
    \cup { Reported(UserPath, << "User" >>, "maxLength", "missing_constraint", IntV(80)),
           Reported(UserPath, << "User" >>, "maxLength", "extra_constraint", NoneV),
           Reported(UserPath, << "User" >>, "maxLength", "type_mismatch", IntV(80)),
           Reported(UserPath, << "User" >>, "maxLength", "constraint_mismatch", IntV(80)),
           Reported(UserPath, << "Ghost" >>, "maxLength", "spec_stricter", IntV(80)),
           Reported(UserPath, << "User", "name" >>, "maxLength", "spec_stricter", IntV(80)) }

SecondDiscrepancies ==
  { Reported(UserPath, << "User" >>, "maxLength", "spec_looser", IntV(5)),
    Reported(<< "b.yaml" >>, << "User" >>, "maxLength", "spec_stricter", IntV(80)),
    Reported(<< "c.json", "#" >>, << "User" >>, "maxLength", "spec_stricter", IntV(80)) }

DiscrepancyLists ==
  { << >> }
    \cup { << d >> : d \in FirstDiscrepancies }
    \cup { << d, d >> : d \in FirstDiscrepancies }
    \cup { << d, e >> : d \in FirstDiscrepancies, e \in SecondDiscrepancies }

NoFix ==
  [ strategy |-> "none", discrepancy |-> NoneV, found |-> FALSE, declared |-> FALSE,
    old_value |-> NoneV, after |-> NoneV, change |-> NoChange,
    at |-> NotFound, spec_before |-> NoneV, spec_after |-> NoneV ]

\* reconcile_all goes on to the next file, or returns self.results.
FileDone(r, verdict, clone) ==
  /\ results' = Append(results, r)
  /\ verdicts' = Append(verdicts, [validate |-> verdict, clone |-> clone])
  /\ idx' = idx + 1
  /\ phase' = IF idx + 1 > Len(files) THEN "returned" ELSE "next"
  /\ original' = NoneV
  /\ fixed' = NoneV
  /\ pending' = << >>
  /\ result' = NoneV
  /\ fixed_is_original' = FALSE

\* _reconcile_file up to its first fix: the file fails to load, is passed
\* through, or is cloned.
BeginFile ==
  /\ phase = "next"
  /\ idx <= Len(files)
  /\ LET f == files[idx]
         ds == DiscrepanciesOf(f.name, discrepancies)
         r == NewResult(f.name)
     IN IF ~f.loads
          THEN FileDone([r EXCEPT !.validation_errors = Append(@, "load error")],
                        "not_run", NoneV)
        ELSE IF ds = << >>
          THEN FileDone([r EXCEPT !.modified = FALSE, !.fixed_spec = f.doc],
                        "not_run", NoneV)
        ELSE /\ phase' = "patching"
             /\ original' = f.doc
             /\ fixed' = DeepCopy(f.doc).doc
             /\ fixed_is_original' = DeepCopy(f.doc).same
             /\ pending' = ds
             /\ result' = r
             /\ UNCHANGED << results, verdicts, idx >>
  /\ UNCHANGED << files, discrepancies, fix_strategies, last_fix, changelog, summary,
                  limiterVars, validatorVars, requestVars >>

\* One turn of the loop `for discrepancy in discrepancies`.
ApplyFixStep ==
  /\ phase = "patching"
  /\ pending # << >>
  /\ LET d == Head(pending)
         found == SchemaFound(fixed, d)
         at == FindSchema(fixed, d.property_name)
     IN \E o \in ApplyFix(fixed, d, fix_strategies) :
          /\ fixed' = o.spec
          /\ original' = IF fixed_is_original THEN o.spec ELSE original
          /\ result' = IF o.change # NoChange
                         THEN [result EXCEPT !.changes = Append(@, o.change),
                                             !.modified = TRUE]
                         ELSE result
          /\ last_fix' =
               [ strategy |-> GetFixStrategy(d, fix_strategies),
                 discrepancy |-> d,
                 found |-> found,
                 declared |-> found /\ Has(At(fixed, at), d.constraint_type),
                 old_value |-> IF found THEN Get(At(fixed, at), d.constraint_type)
                                        ELSE NoneV,
                 after |-> IF found THEN Get(At(o.spec, at), d.constraint_type)
                                    ELSE NoneV,
                 change |-> o.change,
                 at |-> at,
                 spec_before |-> fixed,
                 spec_after |-> o.spec ]
  /\ pending' = Tail(pending)
  /\ UNCHANGED << files, discrepancies, fix_strategies, results, phase, idx,
                  verdicts, fixed_is_original, changelog, summary,
                  limiterVars, validatorVars, requestVars >>

\* The end of _reconcile_file: validate(fixed) is called on a modified clone,
\* and returns or raises.
FinishFile ==
  /\ phase = "patching"
  /\ pending = << >>
  /\ \E valid \in IF result.modified THEN BOOLEAN ELSE {TRUE} :
       FileDone(ValidatedResult(result, original, fixed, valid),
                IF ~result.modified THEN "not_run"
                ELSE IF valid THEN "valid" ELSE "invalid",
                fixed)
  /\ UNCHANGED << files, discrepancies, fix_strategies, last_fix, changelog, summary,
                  limiterVars, validatorVars, requestVars >>

\* generate_changelog, called once reconcile_all has returned.
GenerateChangelog ==
  /\ phase = "returned"
  /\ files # << >>
  /\ changelog = NotReported
  /\ changelog' = [reported |-> TRUE] @@ Changelog(results)
  /\ UNCHANGED << files, discrepancies, fix_strategies, results, phase, idx, original,
                  fixed, pending, result, last_fix, verdicts, fixed_is_original, summary,
                  limiterVars, validatorVars, requestVars >>

\* get_summary, called once reconcile_all has returned.
GetSummary ==
  /\ phase = "returned"
  /\ files # << >>
  /\ summary = NotReported
  /\ summary' = [reported |-> TRUE] @@ Summary(results)
  /\ UNCHANGED << files, discrepancies, fix_strategies, results, phase, idx, original,
                  fixed, pending, result, last_fix, verdicts, fixed_is_original, changelog,
                  limiterVars, validatorVars, requestVars >>

\* reconcile_all is called on a directory of files with a list of discrepancies.
ReconcilerInit ==
  /\ files \in FileLists
  /\ discrepancies \in DiscrepancyLists
  /\ fix_strategies \in FixStrategies
  /\ results = << >>
  /\ phase = "next"
  /\ idx = 1
  /\ original = NoneV
  /\ fixed = NoneV
  /\ pending = << >>
  /\ result = NoneV
  /\ last_fix = NoFix
  /\ verdicts = << >>
  /\ fixed_is_original = FALSE
  /\ changelog = NotReported
  /\ summary = NotReported

\* No reconciliation is under way.
ReconcilerIdle ==
  /\ files = << >>
  /\ discrepancies = << >>
  /\ fix_strategies = DefaultFixStrategies
  /\ results = << >>
  /\ phase = "returned"
  /\ idx = 1
  /\ original = NoneV
  /\ fixed = NoneV
  /\ pending = << >>
  /\ result = NoneV
  /\ last_fix = NoFix
  /\ verdicts = << >>
  /\ fixed_is_original = FALSE
  /\ changelog = NotReported
  /\ summary = NotReported

ReconcilerNext ==
  BeginFile \/ ApplyFixStep \/ FinishFile \/ GenerateChangelog \/ GetSummary

(***************************************************************************)
(* ConstraintValidator                                                     *)
(*                                                                         *)
(* The name of a ValidationTestCase is the list of its "_"-separated       *)
(* parts.                                                                  *)
(***************************************************************************)

\* c * n for a one-character string c.
RECURSIVE Repeat(_, _)
Repeat(c, n) == IF n <= 0 THEN "" ELSE c \o Repeat(c, n - 1)

ValidationTestCase(name, value, expected_valid) ==
  [name |-> name, value |-> value, expected_valid |-> expected_valid]

\* Fault injected to test MinLengthCases: the cases below the bound without
\* their guard.
UnguardedMinLengthTests(min_length) ==
  << ValidationTestCase(<< "minLength", "exact", ToString(min_length) >>,
                        StrV(Repeat("a", min_length)), TRUE),
     ValidationTestCase(<< "minLength", "below", ToString(min_length) >>,
                        StrV(Repeat("a", min_length - 1)), FALSE),
     ValidationTestCase(<< "minLength", "empty" >>, StrV(""), FALSE),
     ValidationTestCase(<< "minLength", "above", ToString(min_length) >>,
                        StrV(Repeat("a", min_length + 5)), TRUE) >>

\* _generate_min_length_tests
GenerateMinLengthTests(min_length) ==
  << ValidationTestCase(<< "minLength", "exact", ToString(min_length) >>,
                        StrV(Repeat("a", min_length)), TRUE) >>
  \o (IF min_length > 0
        THEN << ValidationTestCase(<< "minLength", "below", ToString(min_length) >>,
                                   StrV(Repeat("a", min_length - 1)), FALSE) >>
        ELSE << >>)
  \o (IF min_length > 0
        THEN << ValidationTestCase(<< "minLength", "empty" >>, StrV(""), FALSE) >>
        ELSE << >>)
  \o << ValidationTestCase(<< "minLength", "above", ToString(min_length) >>,
                           StrV(Repeat("a", min_length + 5)), TRUE) >>

\* _generate_max_length_tests
GenerateMaxLengthTests(max_length) ==
  << ValidationTestCase(<< "maxLength", "exact", ToString(max_length) >>,
                        StrV(Repeat("a", max_length)), TRUE),
     ValidationTestCase(<< "maxLength", "above", ToString(max_length) >>,
                        StrV(Repeat("a", max_length + 1)), FALSE),
     ValidationTestCase(<< "maxLength", "overflow", ToString(max_length) >>,
                        StrV(Repeat("a", max_length + 100)), FALSE),
     ValidationTestCase(<< "maxLength", "empty" >>, StrV(""), TRUE) >>

\* A float at or above 2^53 - 82, written as its distance from 2^53 =
\* 9007199254740992.0: from 2^53 on only the even distances are floats.
BigFloat(x) == JsonV("float", x, "", << >>, << >>)

\* The float nearest to 2^53 + x, the one with the even mantissa on a tie.
RoundToFloat(x) ==
  IF x <= 0 \/ x % 2 = 0 THEN x
  ELSE IF (x - 1) % 4 = 0 THEN x - 1 ELSE x + 1

\* bound + d and bound - d for an int or a float bound and an int d.
PyAdd(v, d) ==
  IF v.k = "float" THEN BigFloat(RoundToFloat(v.n + d)) ELSE IntV(v.n + d)

\* f"{v}" for an int or a float.
Format(v) ==
  IF v.k = "float" THEN "90071992547409" \o ToString(92 + v.n) \o ".0"
  ELSE ToString(v.n)

\* ["item"] * n
RECURSIVE Items(_)
Items(n) == IF n <= 0 THEN << >> ELSE << "item" >> \o Items(n - 1)

\* _generate_minimum_tests
GenerateMinimumTests(minimum) ==
  << ValidationTestCase(<< "minimum", "exact", Format(minimum) >>, minimum, TRUE),
     ValidationTestCase(<< "minimum", "below", Format(minimum) >>, PyAdd(minimum, -1), FALSE),
     ValidationTestCase(<< "minimum", "above", Format(minimum) >>, PyAdd(minimum, 1), TRUE) >>

\* _generate_maximum_tests
GenerateMaximumTests(maximum) ==
  << ValidationTestCase(<< "maximum", "exact", Format(maximum) >>, maximum, TRUE),
     ValidationTestCase(<< "maximum", "above", Format(maximum) >>, PyAdd(maximum, 1), FALSE),
     ValidationTestCase(<< "maximum", "below", Format(maximum) >>, PyAdd(maximum, -1), TRUE) >>

\* _generate_min_items_tests
GenerateMinItemsTests(min_items) ==
  << ValidationTestCase(<< "minItems", "exact", ToString(min_items) >>,
                        ListV(Items(min_items)), TRUE) >>
  \o (IF min_items > 0
        THEN << ValidationTestCase(<< "minItems", "below", ToString(min_items) >>,
                                   ListV(Items(min_items - 1)), FALSE) >>
        ELSE << >>)
  \o (IF min_items > 0
        THEN << ValidationTestCase(<< "minItems", "empty" >>, ListV(<< >>), FALSE) >>
        ELSE << >>)

\* _generate_max_items_tests
GenerateMaxItemsTests(max_items) ==
  << ValidationTestCase(<< "maxItems", "exact", ToString(max_items) >>,
                        ListV(Items(max_items)), TRUE),
     ValidationTestCase(<< "maxItems", "above", ToString(max_items) >>,
                        ListV(Items(max_items + 1)), FALSE),
     ValidationTestCase(<< "maxItems", "empty" >>, ListV(<< >>), TRUE) >>

\* generate_test_cases, for the bound constraints and the constraint types
\* that have no generator.
GenerateTestCases(constraint_type, constraint_value) ==
  CASE constraint_type = "minLength" -> GenerateMinLengthTests(constraint_value)
    [] constraint_type = "maxLength" -> GenerateMaxLengthTests(constraint_value)
    [] constraint_type = "minimum" -> GenerateMinimumTests(constraint_value)
    [] constraint_type = "maximum" -> GenerateMaximumTests(constraint_value)
    [] constraint_type = "minItems" -> GenerateMinItemsTests(constraint_value)
    [] constraint_type = "maxItems" -> GenerateMaxItemsTests(constraint_value)
    [] OTHER -> << >>

\* The constraints declared in a schema: a length or an item count is a
\* non-negative int, a minimum or maximum an int or a float.
CountBounds == {"minLength", "maxLength", "minItems", "maxItems", "format"}
NumberBounds == {"minimum", "maximum"}
DeclaredValues(constraint_type) ==
  IF constraint_type \in NumberBounds
    THEN { IntV(x) : x \in (0 - MaxBound)..MaxBound } \cup { BigFloat(0), BigFloat(4) }
    ELSE 0..MaxBound

\* Fault injected to test CompareResultsClassifies: the two discrepancy types
\* exchanged.
CompareSwapped(test_case, api_accepted) ==
  IF test_case.expected_valid = api_accepted
    THEN NoneV
    ELSE LET discrepancy_type ==
               IF test_case.expected_valid /\ ~api_accepted
                 THEN "spec_stricter"
                 ELSE "spec_looser"
         IN [ path |-> << "" >>, property_name |-> << "" >>,
              constraint_type |-> test_case.name[1],
              discrepancy_type |-> discrepancy_type ]

\* compare_results: NoneV for None.
CompareResults(test_case, api_accepted) ==
  IF test_case.expected_valid = api_accepted
    THEN NoneV
    ELSE LET discrepancy_type ==
               IF test_case.expected_valid /\ ~api_accepted
                 THEN "spec_looser"
                 ELSE "spec_stricter"
         IN Discrepancy(<< "" >>, << "" >>, test_case.name[1], discrepancy_type,
                        BoolV(test_case.expected_valid), BoolV(api_accepted),
                        << test_case.value >>)

NoComparison ==
  [called |-> FALSE, test_case |-> NoneV, api_accepted |-> FALSE, result |-> NoneV]

\* A caller generates the test cases of a declared constraint.
Generate ==
  /\ \E c \in CountBounds \cup NumberBounds :
       \E v \in DeclaredValues(c) :
         /\ test_cases' = GenerateTestCases(c, v)
         /\ generated' = [called |-> TRUE, constraint_type |-> c, constraint_value |-> v]
  /\ UNCHANGED << compared, limiterVars, reconcilerVars, requestVars >>

\* A caller probes the API with a test case and compares the outcome.
Compare ==
  /\ \E i \in DOMAIN test_cases, api_accepted \in BOOLEAN :
       compared' = [ called |-> TRUE, test_case |-> test_cases[i],
                     api_accepted |-> api_accepted,
                     result |-> CompareResults(test_cases[i], api_accepted) ]
  /\ UNCHANGED << test_cases, generated, limiterVars, reconcilerVars, requestVars >>

ValidatorInit ==
  /\ test_cases = << >>
  /\ compared = NoComparison
  /\ generated = [called |-> FALSE]

ValidatorNext == Generate \/ Compare

(***************************************************************************)
(* Specifications                                                          *)
(***************************************************************************)

\* A limiter as constructed by RateLimiter.__init__.
Constructed(cfg) ==
  /\ config = cfg
  /\ request_times = << >>
  /\ current_backoff = cfg.initial_backoff
  /\ success_streak = 0
  /\ current_rpm = cfg.requests_per_minute
  /\ lock = 0
  /\ pc = [t \in Callers |-> "idle"]
  /\ wake = [t \in Callers |-> 0]
  /\ clock = 0
  /\ admitted = << >>
  /\ admits = 0
  /\ lastOp = "none"
  /\ returned = 0
  /\ hits = 0
  /\ arrivals = << >>

LimiterInit ==
  /\ budget \in Budgets
  /\ \E cfg \in Configs : Constructed(cfg)

LimiterIdle ==
  /\ budget = [admits |-> 0, hits |-> 0]
  /\ Constructed(DefaultConfig)

LimiterNext ==
  \/ \E t \in Callers : WaitCall(t)
  \/ \E t \in Callers : WaitEnter(t)
  \/ \E t \in Callers : WaitAfterRpmSleep(t)
  \/ \E t \in Callers : WaitAfterMinSleep(t)
  \/ RecordSuccess
  \/ RecordRateLimit
  \/ GetStats
  \/ Advance

\* The rate limiter under its callers.
Init == LimiterInit /\ ReconcilerIdle /\ ValidatorInit /\ RequestIdle
Next == LimiterNext
Spec == Init /\ [][Next]_vars

\* The rate limiter when time advances, a sleep that is over ends, and a
\* caller that waits for the lock gets it if it is free again and again.
Fairness ==
  /\ WF_vars(Advance)
  /\ \A t \in Callers :
       /\ SF_vars(WaitEnter(t))
       /\ WF_vars(WaitAfterRpmSleep(t))
       /\ WF_vars(WaitAfterMinSleep(t))
FairSpec == Init /\ [][Next]_vars /\ Fairness

\* One run of reconcile_all.
InitReconciler == ReconcilerInit /\ LimiterIdle /\ ValidatorInit /\ RequestIdle
ReconcilerSpec == InitReconciler /\ [][ReconcilerNext]_vars

\* Test generation and comparison.
InitValidator == ValidatorInit /\ LimiterIdle /\ ReconcilerIdle /\ RequestIdle
ValidatorSpec == InitValidator /\ [][ValidatorNext]_vars

\* Requests made one after the other through F5XCAuth.request.
InitRequest == RequestInit /\ LimiterIdle /\ ReconcilerIdle /\ ValidatorInit
RequestSpec == InitRequest /\ [][RequestNext]_vars

(***************************************************************************)
(* Properties of the rate limiter, checked under Spec                      *)
(***************************************************************************)

\* C1, as claimed: for every configuration, 5 <= current_rpm <= 2 x baseline
\* in the initial state and after any sequence of limiter calls.
RpmWithinBoundsAlways ==
  5 <= current_rpm /\ current_rpm <= 2 * config.requests_per_minute

\* C1, amended: when the configured baseline is at least 5 and the
\* decrease_factor at most 1, 5 <= current_rpm <= 2 x baseline in the initial
\* state and after any sequence of limiter calls.
RpmWithinBounds ==
  (config.requests_per_minute >= 5 /\ config.decrease_factor <= 10)
    => (5 <= current_rpm /\ current_rpm <= 2 * config.requests_per_minute)

\* C1: a limiter with such a configuration that has admitted requests, was
\* rate limited and has then climbed to twice its baseline.
RpmAtCapAfterHit ==
  /\ config.requests_per_minute >= 5
  /\ config.decrease_factor <= 10
  /\ lastOp = "success"
  /\ current_rpm = 2 * config.requests_per_minute
  /\ returned > 0
  /\ admits > 0

\* C2: when wait_if_needed admits a request, the admissions of the trailing
\* 60 s, the new one included, number at most the current_rpm of that moment.
AdmittedWithinCeiling ==
  lastOp = "admit" => Cardinality(InWindow(admitted, clock)) <= current_rpm

RECURSIVE Pow(_, _)
Pow(b, e) == IF e <= 0 THEN 1 ELSE b * Pow(b, e - 1)

\* C8: the k-th record_rate_limit of a run of hits with no record_success in
\* between returns min(initial_backoff x backoff_multiplier^(k-1), max_backoff);
\* the returned values then never decrease within the run and never exceed
\* max_backoff.
BackoffFollowsSchedule ==
  lastOp = "rate_limit"
    => returned = Min(config.initial_backoff * Pow(config.backoff_multiplier, hits - 1),
                      config.max_backoff)

\* C9: for every configuration, record_success leaves the backoff at
\* initial_backoff, and the first record_rate_limit after a record_success
\* returns initial_backoff.
SuccessResetsBackoff ==
  /\ lastOp = "success" => current_backoff = config.initial_backoff
  /\ (lastOp = "rate_limit" /\ hits = 1) => returned = config.initial_backoff

\* C10: any two consecutive timestamps of the window are at least
\* min_request_interval apart.
MinIntervalBetweenAdmissions ==
  \A i \in 1..(Len(request_times) - 1) :
    request_times[i + 1] - request_times[i] >= config.min_request_interval

\* C10: a request was admitted into a full window, exactly min_request_interval
\* after the one before it.
AdmittedAfterMinSleep ==
  /\ lastOp = "admit"
  /\ Len(request_times) >= current_rpm
  /\ request_times[Len(request_times)] - request_times[Len(request_times) - 1]
       = config.min_request_interval

\* The callers suspended in a time.sleep of wait_if_needed.
Sleeping == { t \in Callers : pc[t] \in {"rpm_sleep", "min_sleep"} }

\* C11: the limiter state is read and written only under the lock. The lock is
\* held only by a caller inside wait_if_needed; while a caller holds it no
\* record_rate_limit or get_stats completes, nobody changes the ceiling, the
\* backoff or the success counter, and only the holder inserts into the
\* window, releasing the lock as it does; the window stays in time order.
LockSerializes ==
  /\ [](lock # 0 => lock \in Sleeping)
  /\ [](\A i \in 1..(Len(request_times) - 1) : request_times[i] <= request_times[i + 1])
  /\ [][lock # 0 =>
          /\ UNCHANGED << current_rpm, current_backoff, success_streak >>
          /\ lastOp' \notin {"rate_limit", "stats"}
          /\ request_times' # request_times
               => (lock' = 0 /\ pc'[lock] = "idle"
                   /\ request_times' = DequeAppend(request_times, clock))]_vars

\* C11: one caller sleeps inside wait_if_needed with the lock while the other
\* has called wait_if_needed and waits for the lock, after a rate-limit hit.
SleeperHoldsLockOtherWaits ==
  /\ lock \in Sleeping
  /\ \E t \in Callers : pc[t] = "blocked"
  /\ returned > 0

\* C12: a caller that sleeps inside wait_if_needed does not hold the lock.
SleepsWithoutLock == \A t \in Sleeping : lock # t

\* C13: callers are admitted in the order they called wait_if_needed: the
\* caller in the critical section, the next one admitted, is the one that
\* called first among those not yet admitted.
AdmittedInArrivalOrder == lock # 0 => arrivals[1] = lock

\* C14: record_success increments the success counter; it changes current_rpm
\* only at the call where the counter reaches success_streak_threshold, where
\* the ceiling becomes the integer part of ceiling x increase_factor, capped at
\* 2 x baseline, and the counter returns to zero.
StreakRaisesCeiling ==
  [][lastOp' = "success" =>
       IF success_streak + 1 >= config.success_streak_threshold
         THEN /\ success_streak' = 0
              /\ current_rpm' = Min((current_rpm * config.increase_factor) \div 10,
                                    2 * config.requests_per_minute)
         ELSE /\ success_streak' = success_streak + 1
              /\ current_rpm' = current_rpm]_vars

\* C27: with adaptive limiting and current_rpm below 2 x baseline, the
\* record_success call that completes a run of success_streak_threshold
\* successes strictly raises current_rpm, so that the ceiling climbs back
\* after throttling.
CeilingRecovers ==
  [][(/\ lastOp' = "success"
      /\ config.adaptive
      /\ current_rpm < 2 * config.requests_per_minute
      /\ success_streak + 1 >= config.success_streak_threshold)
       => current_rpm' > current_rpm]_vars

\* A sleep that ends after the last instant of the model.
BeyondHorizon == \E u \in Callers : wake[u] > MaxClock

\* C26: every wait_if_needed call returns, whatever the window holds and
\* whoever else is calling, and as it returns its timestamp is the newest
\* entry of the window. Checked under FairSpec, up to the last instant of
\* the model.
WaitReturns ==
  /\ \A t \in Callers : (pc[t] # "idle") ~> (pc[t] = "idle" \/ BeyondHorizon)
  /\ [][\A t \in Callers :
          (pc[t] # "idle" /\ pc'[t] = "idle") =>
            /\ request_times' # << >>
            /\ request_times'[Len(request_times')] = clock
            /\ admits' = admits + 1]_vars

\* C26: a caller that found the window full and slept, while the other caller
\* waited for the lock, has returned.
ReturnedAfterFullWindow ==
  /\ lastOp = "admit"
  /\ Len(request_times) > current_rpm
  /\ \E t \in Callers : pc[t] = "blocked"
  /\ ~BeyondHorizon

(***************************************************************************)
(* Properties of F5XCAuth.request, checked under RequestSpec               *)
(***************************************************************************)

\* The error an attempt fails with: the exception caught in it, and for a 429,
\* which raises nothing, the RuntimeError request raises itself.
ErrorOf(resp, n) ==
  IF resp.kind = "429" THEN RuntimeError ELSE Exception(resp.kind, n)

\* C15: when all `retries` attempts of a request failed, request raises the
\* error of the last failed attempt; it returns a response only from an
\* attempt that succeeded and never makes more than `retries` attempts.
RaisesLastFailure ==
  /\ Len(responses) <= retries
  /\ outcome = "returned" <=> (responses # << >> /\ responses[Len(responses)].kind = "ok")
  /\ (outcome = "raised" /\ retries > 0)
       => /\ Len(responses) = retries
          /\ \A i \in 1..retries : responses[i].kind # "ok"
          /\ raised = ErrorOf(responses[retries], retries - 1)

\* The 429 responses among the attempts of the request.
RateLimited == { i \in 1..Len(responses) : responses[i].kind = "429" }

\* C16: request calls record_rate_limit once per 429 response and sleeps the
\* larger of the returned backoff and a numeric Retry-After, the returned
\* backoff otherwise; every 429 uses up one attempt of the budget that
\* transport errors use, so that the request raises after `retries` attempts
\* whatever their mix.
RateLimitedSleepsAndRetries ==
  /\ calls = Cardinality(RateLimited)
  /\ attempt = Len(SelectSeq(responses, LAMBDA r : r.kind # "ok"))
  /\ attempt <= retries
  /\ outcome = "raised" => attempt = retries
  /\ (outcome = "running" /\ attempt < retries) => Len(responses) = attempt
  /\ (responses # << >> /\ responses[Len(responses)].kind = "429")
       => LET retry_after == responses[Len(responses)].retry_after
          IN /\ lastOp = "rate_limit"
             /\ slept = IF retry_after.given /\ retry_after.number
                                /\ retry_after.value > returned
                          THEN retry_after.value
                          ELSE returned

\* C16: a request with a budget of 3 attempts got a 429 with a Retry-After of
\* 30 s, slept 30 s, then timed out twice and raised.
RateLimitedThenTimedOut ==
  /\ retries = 3
  /\ outcome = "raised"
  /\ Len(responses) = 3
  /\ responses[1] = Response("429", RetryAfter(TRUE, TRUE, 300))
  /\ responses[2].kind = "timeout"
  /\ responses[3].kind = "timeout"
  /\ calls = 1
  /\ raised = Exception("timeout", 2)

\* C30: every attempt of request first gets an admission from wait_if_needed,
\* whose timestamp enters the window, and then reports one outcome to the
\* limiter: record_rate_limit for a 429, record_success for any other
\* response, which request returns, and nothing for a timeout or a connection
\* error, which leaves current_rpm, current_backoff and the success counter
\* as they are.
AttemptAdmittedThenReported ==
  [][Len(responses') = Len(responses) + 1 =>
       LET resp == responses'[Len(responses')]
       IN /\ admits' = admits + 1
          /\ request_times' # << >>
          /\ request_times'[Len(request_times')] >= clock
          /\ request_times'[Len(request_times')] <= clock'
          /\ \A i \in 1..(Len(request_times') - 1) :
               request_times'[i] \in Range(request_times)
          /\ CASE resp.kind = "429" ->
                    /\ lastOp' = "rate_limit"
                    /\ hits' = hits + 1
                    /\ calls' = calls + 1
                    /\ success_streak' = 0
                    /\ current_rpm' = Max(MinRpm, (current_rpm * config.decrease_factor) \div 10)
                    /\ current_backoff'
                         = Min(current_backoff * config.backoff_multiplier, config.max_backoff)
                    /\ outcome' = "running"
               [] resp.kind = "ok" ->
                    /\ lastOp' = "success"
                    /\ hits' = 0
                    /\ calls' = calls
                    /\ current_backoff' = config.initial_backoff
                    /\ outcome' = "returned"
               [] OTHER ->
                    /\ lastOp' \notin {"rate_limit", "success"}
                    /\ hits' = hits
                    /\ calls' = calls
                    /\ UNCHANGED << current_rpm, current_backoff, success_streak >>
                    /\ outcome' = "running"]_vars

\* C30: a request whose first attempt got a 429 and whose second attempt timed
\* out: the ceiling and the backoff are as the 429 left them, and both
\* attempts are in the window.
TimedOutAfterRateLimit ==
  /\ outcome = "running"
  /\ Len(responses) = 2
  /\ responses[1].kind = "429"
  /\ responses[2].kind = "timeout"
  /\ calls = 1
  /\ hits = 1
  /\ current_rpm = 24
  /\ current_backoff = 20
  /\ Len(request_times) >= 2

(***************************************************************************)
(* Properties of the reconciler, checked under ReconcilerSpec              *)
(***************************************************************************)

\* The results produced so far, and whether the patched clone of file i
\* failed validation.
Produced == 1..Len(results)
RolledBack(i) == verdicts[i].validate = "invalid"

\* C3: when the patched document of a file fails validation, the file's result
\* has modified = false, fixed_spec equal to the document as loaded and the
\* validation error recorded; reconcile_all goes on with the next file and
\* returns a result for every file.
RollbackKeepsOriginal ==
  /\ \A i \in Produced :
       RolledBack(i) =>
         /\ results[i].filename = files[i].name
         /\ results[i].modified = FALSE
         /\ results[i].fixed_spec = files[i].doc
         /\ results[i].validation_errors = << "invalid" >>
  /\ idx = Len(results) + 1
  /\ phase = "returned" <=> Len(results) = Len(files)

\* C3: reconcile_all has returned; the first file was patched, failed
\* validation and was rolled back, and the second file has its result too.
RolledBackThenContinued ==
  /\ phase = "returned"
  /\ Len(results) = 2
  /\ RolledBack(1)
  /\ verdicts[1].clone # files[1].doc
  /\ results[1].changes # << >>
  /\ results[2].filename = files[2].name

\* The three outcomes of a file, for its result r, its document as loaded and
\* the patched clone.
PassThrough(r, doc, clone) ==
  ~r.modified /\ r.validation_errors = << >> /\ r.fixed_spec = doc
Fixed(r, doc, clone) ==
  r.modified /\ r.validation_errors = << >> /\ r.fixed_spec = clone /\ clone # NoneV
RolledBackTo(r, doc, clone) ==
  ~r.modified /\ r.validation_errors # << >> /\ r.fixed_spec = doc
OneOutcome(r, doc, clone) ==
  /\ r.fixed_spec # NoneV
  /\ Cardinality({ o \in {"pass-through", "fixed", "rolled-back"} :
                     CASE o = "pass-through" -> PassThrough(r, doc, clone)
                       [] o = "fixed" -> Fixed(r, doc, clone)
                       [] o = "rolled-back" -> RolledBackTo(r, doc, clone) }) = 1
ResultPerFile ==
  /\ Len(results) <= Len(files)
  /\ phase = "returned" => Len(results) = Len(files)
  /\ \A i \in Produced : results[i].filename = files[i].name

\* C4, as claimed: reconcile_all produces a result for every file, each in
\* exactly one of the outcomes pass-through, fixed and rolled-back, and its
\* fixed_spec is never absent.
EveryResultInOneOutcome ==
  /\ ResultPerFile
  /\ \A i \in Produced : OneOutcome(results[i], files[i].doc, verdicts[i].clone)

\* C4, amended: reconcile_all produces a result for every file; the result of
\* a file that loads is in exactly one of the outcomes pass-through, fixed and
\* rolled-back with fixed_spec present, and the result of a file that fails to
\* load has modified = false, the load error recorded and no fixed_spec.
EveryLoadedResultInOneOutcome ==
  /\ ResultPerFile
  /\ \A i \in Produced :
       IF files[i].loads
         THEN OneOutcome(results[i], files[i].doc, verdicts[i].clone)
         ELSE /\ ~results[i].modified
              /\ results[i].changes = << >>
              /\ results[i].validation_errors = << "load error" >>
              /\ results[i].fixed_spec = NoneV

\* C4: reconcile_all has returned one result for a file that was fixed and
\* one for a file that failed to load.
FixedAndUnloadable ==
  /\ phase = "returned"
  /\ Len(results) = 2
  /\ Fixed(results[1], files[1].doc, verdicts[1].clone)
  /\ results[1].fixed_spec # files[1].doc
  /\ ~files[2].loads
  /\ results[2].fixed_spec = NoneV

\* The last fix applied, when it found its schema node and both the declared
\* and the observed value of the constraint are integers.
LastFixOnIntegers(strategy) ==
  /\ last_fix.strategy = strategy
  /\ last_fix.found
  /\ last_fix.declared
  /\ IsInt(last_fix.old_value)
  /\ IsInt(last_fix.discrepancy.api_behavior)
LastFixOnEnums(strategy) ==
  /\ last_fix.strategy = strategy
  /\ last_fix.found
  /\ last_fix.discrepancy.constraint_type = "enum"
  /\ IsList(last_fix.old_value)
  /\ IsList(last_fix.discrepancy.api_behavior)
\* The fix left `value` in the schema, with a change entry iff it differs from
\* the declared value.
LastFixSet(action, value) ==
  /\ last_fix.after = value
  /\ IF value = last_fix.old_value
       THEN last_fix.change = NoChange
       ELSE /\ last_fix.change # NoChange
            /\ last_fix.change.action = action
            /\ last_fix.change.old_value = last_fix.old_value
            /\ last_fix.change.new_value = value

\* C5: a relax fix leaves min(old, observed) in minLength/minimum, max(old,
\* observed) in maxLength/maximum and the union of the declared and observed
\* sets in enum; the schema changes and an entry {relax, old_value, new_value}
\* is recorded only if the new value differs from the old.
RelaxTakesLooser ==
  LET c == last_fix.discrepancy.constraint_type
      old == last_fix.old_value
      api == last_fix.discrepancy.api_behavior
  IN /\ (LastFixOnIntegers("relax") /\ c \in {"minLength", "minimum"})
          => LastFixSet("relax", IntV(Min(old.n, api.n)))
     /\ (LastFixOnIntegers("relax") /\ c \in {"maxLength", "maximum"})
          => LastFixSet("relax", IntV(Max(old.n, api.n)))
     /\ LastFixOnEnums("relax")
          => /\ IsList(last_fix.after)
             /\ Range(last_fix.after.l) = Range(old.l) \cup Range(api.l)
             /\ LastFixSet("relax", last_fix.after)

\* C5: maxLength 50 was relaxed with observed 80 to maxLength 80, and the
\* entry {relax, old_value 50, new_value 80} was recorded.
RelaxedFiftyToEighty ==
  /\ LastFixOnIntegers("relax")
  /\ last_fix.discrepancy.constraint_type = "maxLength"
  /\ last_fix.old_value = IntV(50)
  /\ last_fix.discrepancy.api_behavior = IntV(80)
  /\ last_fix.after = IntV(80)
  /\ last_fix.change # NoChange
  /\ last_fix.change.action = "relax"
  /\ last_fix.change.old_value = IntV(50)
  /\ last_fix.change.new_value = IntV(80)

\* C6: a tighten fix leaves max(old, observed) in minLength/minimum and
\* min(old, observed) in maxLength/maximum for every declared old value, 0 and
\* negative ones included, and the observed set in enum; the bound it leaves
\* is never looser than the declared one.
TightenMirrorsRelax ==
  LET c == last_fix.discrepancy.constraint_type
      old == last_fix.old_value
      api == last_fix.discrepancy.api_behavior
  IN /\ (LastFixOnIntegers("tighten") /\ c \in {"minLength", "minimum"})
          => /\ LastFixSet("tighten", IntV(Max(old.n, api.n)))
             /\ last_fix.after.n >= old.n
     /\ (LastFixOnIntegers("tighten") /\ c \in {"maxLength", "maximum"})
          => /\ LastFixSet("tighten", IntV(Min(old.n, api.n)))
             /\ last_fix.after.n <= old.n
     /\ LastFixOnEnums("tighten") => LastFixSet("tighten", api)

\* The category of fix_strategies a discrepancy type is configured under, and
\* the action a category has by default.
CategoryOf(discrepancy_type) ==
  CASE discrepancy_type = "spec_stricter" -> "tighter_spec"
    [] discrepancy_type = "spec_looser" -> "looser_spec"
    [] discrepancy_type = "missing_constraint" -> "missing_constraint"
    [] discrepancy_type = "extra_constraint" -> "extra_constraint"
    [] OTHER -> "unmapped"
DefaultAction(category) ==
  CASE category = "tighter_spec" -> "relax"
    [] category = "looser_spec" -> "tighten"
    [] category = "missing_constraint" -> "add"
    [] category = "extra_constraint" -> "remove"
    [] OTHER -> "skip"
LastFixChangedNothing ==
  last_fix.change = NoChange /\ last_fix.spec_after = last_fix.spec_before

\* C17: the action of a fix is decided by the discrepancy type alone: relax for
\* SPEC_STRICTER, tighten for SPEC_LOOSER, add for MISSING_CONSTRAINT, remove
\* for EXTRA_CONSTRAINT, or what fix_strategies configures for the category;
\* a discrepancy of another type changes nothing and records no change.
StrategyFromType ==
  last_fix.strategy # "none" =>
    LET category == CategoryOf(last_fix.discrepancy.discrepancy_type)
        expected == IF category \in DOMAIN fix_strategies
                      THEN fix_strategies[category]
                      ELSE DefaultAction(category)
    IN /\ last_fix.strategy = expected
       /\ last_fix.change # NoChange => last_fix.change.action = expected
       /\ category = "unmapped" => LastFixChangedNothing
       /\ expected \notin {"relax", "tighten", "add", "remove"} => LastFixChangedNothing

\* C17: with fix_strategies overriding tighter_spec by tighten, a SPEC_STRICTER
\* discrepancy was fixed by tightening the schema.
OverrideTightened ==
  /\ fix_strategies = OverridingFixStrategies
  /\ last_fix.strategy = "tighten"
  /\ last_fix.discrepancy.discrepancy_type = "spec_stricter"
  /\ last_fix.change # NoChange
  /\ last_fix.change.action = "tighten"
  /\ last_fix.spec_after # last_fix.spec_before

\* The node _find_schema located for the last fix, and whether the constraint
\* key was in it.
Located == last_fix.at # NotFound
KeyPresent ==
  Located /\ Has(At(last_fix.spec_before, last_fix.at), last_fix.discrepancy.constraint_type)

\* C18: an add fix sets the constraint to the observed value whenever the key
\* is absent from the located node, a node without keys included, and records
\* an entry with new_value and no old_value; when the key is present it
\* changes nothing. A remove fix deletes the key only when present and
\* records the removed value as old_value, with no new_value.
AddWhenAbsentRemoveWhenPresent ==
  LET c == last_fix.discrepancy.constraint_type
  IN /\ (last_fix.strategy = "add" /\ Located) =>
          IF KeyPresent
            THEN LastFixChangedNothing
            ELSE /\ Get(At(last_fix.spec_after, last_fix.at), c)
                      = last_fix.discrepancy.api_behavior
                 /\ last_fix.change # NoChange
                 /\ last_fix.change.action = "add"
                 /\ last_fix.change.new_value = last_fix.discrepancy.api_behavior
                 /\ "old_value" \notin DOMAIN last_fix.change
     /\ (last_fix.strategy = "remove" /\ Located) =>
          IF KeyPresent
            THEN /\ ~Has(At(last_fix.spec_after, last_fix.at), c)
                 /\ last_fix.change # NoChange
                 /\ last_fix.change.action = "remove"
                 /\ last_fix.change.old_value = At(last_fix.spec_before, last_fix.at).d[c]
                 /\ "new_value" \notin DOMAIN last_fix.change
            ELSE LastFixChangedNothing

\* The schema node a path of one or two parts names in a document: the schema
\* named by the whole path, else the schema named by the first part and in
\* it the child named by the second part, else its property of that name.
SchemasPath == << "components", "schemas" >>
ExpectedNode(doc, parts) ==
  LET schemas == At(doc, SchemasPath)
      whole == IF Len(parts) = 1 THEN parts[1] ELSE parts[1] \o "/" \o parts[2]
  IN IF Has(schemas, whole) THEN SchemasPath \o << whole >>
     ELSE IF Len(parts) = 1 \/ ~Has(schemas, parts[1]) THEN NotFound
     ELSE LET node == schemas.d[parts[1]]
          IN IF Has(node, parts[2])
               THEN SchemasPath \o << parts[1], parts[2] >>
             ELSE IF Has(node, "properties") /\ Has(node.d["properties"], parts[2])
               THEN SchemasPath \o << parts[1], "properties", parts[2] >>
             ELSE NotFound

\* A run whose first discrepancy names a schema its file does not have, and
\* whose second discrepancy is for the same file.
UnresolvedThenResolved ==
  /\ Len(discrepancies) = 2
  /\ files[1].loads
  /\ discrepancies[1].path[1] = files[1].name
  /\ discrepancies[2].path[1] = files[1].name
  /\ ExpectedNode(files[1].doc, discrepancies[1].property_name) = NotFound

\* C19: lookup takes the schema named by the whole path, else walks the parts,
\* taking a same-named child before a property of that name; when it finds
\* nothing the fix changes nothing and records no change, and the later
\* discrepancies of the file are applied as if it had not been there.
LookupExactThenWalk ==
  /\ last_fix.strategy # "none" =>
       /\ last_fix.at = ExpectedNode(last_fix.spec_before, last_fix.discrepancy.property_name)
       /\ ~Located => (~last_fix.found /\ LastFixChangedNothing)
  /\ (UnresolvedThenResolved /\ Len(results) >= 1) =>
       \E o \in ApplyFix(files[1].doc, discrepancies[2], fix_strategies) :
         results[1].changes = IF o.change = NoChange THEN << >> ELSE << o.change >>

\* C19: the first discrepancy of a file named a schema the file does not
\* have, and the second one was applied and recorded.
SkippedThenFixed ==
  /\ UnresolvedThenResolved
  /\ phase = "returned"
  /\ Len(results[1].changes) = 1
  /\ results[1].modified
  /\ results[1].fixed_spec # files[1].doc

\* C20: applying the same relax discrepancy a second time changes nothing and
\* records no further change.
RelaxIdempotent ==
  ( /\ Len(discrepancies) = 2
    /\ discrepancies[1] = discrepancies[2]
    /\ phase = "patching"
    /\ pending = << >>
    /\ last_fix.strategy = "relax"
    /\ last_fix.found )
  => LastFixChangedNothing

\* A document with the recorded changes made to it, in their order: an
\* entry with a new_value sets the constraint of its property, an entry
\* without one deletes it.
RECURSIVE Replay(_, _)
Replay(doc, changes) ==
  IF changes = << >> THEN doc
  ELSE LET change == Head(changes)
           at == ExpectedNode(doc, change.property)
           node == At(doc, at)
           patched == IF "new_value" \in DOMAIN change
                        THEN Put(node, change.constraint, change.new_value)
                        ELSE Pop(node, change.constraint)
       IN Replay(PutAt(doc, at, patched), Tail(changes))

\* C21: the fixes of a file are applied to a clone and the original document
\* is never mutated, neither while patching nor by validation; the fixed_spec
\* of a result holds every recorded change of the file (when the result is
\* modified) or none of them (the original, when it is not), never a subset.
PatchesACloneAtomically ==
  /\ phase = "patching" =>
       /\ original = files[idx].doc
       /\ fixed = Replay(files[idx].doc, result.changes)
  /\ \A i \in Produced :
       files[i].loads =>
         /\ results[i].fixed_spec
              = IF results[i].modified
                  THEN Replay(files[i].doc, results[i].changes)
                  ELSE files[i].doc
         /\ verdicts[i].validate # "not_run" =>
              verdicts[i].clone = Replay(files[i].doc, results[i].changes)

\* C21: two fixes altered the clone of a file, validation rejected the clone
\* and the original was emitted, with neither of the two changes.
TwoFixesRolledBack ==
  /\ Len(results) >= 1
  /\ files[1].loads
  /\ Len(results[1].changes) = 2
  /\ verdicts[1].validate = "invalid"
  /\ verdicts[1].clone # files[1].doc
  /\ Replay(files[1].doc, SubSeq(results[1].changes, 1, 1)) # files[1].doc
  /\ Replay(files[1].doc, SubSeq(results[1].changes, 1, 1)) # verdicts[1].clone
  /\ results[1].fixed_spec = files[1].doc

\* The verb generate_changelog writes for an action.
VerbOf(action) ==
  CASE action = "relax" -> "Relaxed"
    [] action = "tighten" -> "Tightened"
    [] action = "add" -> "Added"
    [] action = "remove" -> "Removed"
    [] OTHER -> "none"

\* The results that are modified.
ModifiedResults == { i \in Produced : results[i].modified }

\* Section k of the changelog is that of result i: its filename, and one
\* bullet per entry of its changes, in the same order.
SectionOf(section, r) ==
  /\ section.filename = r.filename
  /\ Len(section.bullets) = Len(r.changes)
  /\ \A j \in 1..Len(r.changes) :
       /\ section.bullets[j][1] = VerbOf(r.changes[j].action)
       /\ section.bullets[j][2] = r.changes[j].constraint
       /\ section.bullets[j][3] = r.changes[j].property

\* C24: the changes list of a file gets exactly one entry per fix that altered
\* the document, in the order of the file's discrepancies, and the result
\* carries that list; the changelog has one section per modified file, in
\* the order of the results, with one bullet per entry of the file's changes
\* in the same order, and no section for a file that was passed through or
\* rolled back.
ChangelogFollowsChanges ==
  /\ [][(phase = "patching" /\ pending # << >> /\ pending' = Tail(pending)) =>
          IF fixed' # fixed
            THEN /\ Len(result'.changes) = Len(result.changes) + 1
                 /\ SubSeq(result'.changes, 1, Len(result.changes)) = result.changes
                 /\ LET entry == result'.changes[Len(result'.changes)]
                    IN /\ entry.path = Head(pending).path
                       /\ entry.property = Head(pending).property_name
                       /\ entry.constraint = Head(pending).constraint_type
            ELSE result'.changes = result.changes]_vars
  /\ [][(phase = "patching" /\ Len(results') = Len(results) + 1) =>
          results'[Len(results')].changes = result.changes]_vars
  /\ [](changelog.reported =>
          /\ changelog.no_modifications <=> ModifiedResults = {}
          /\ Len(changelog.sections) = Cardinality(ModifiedResults)
          /\ \E f \in [1..Len(changelog.sections) -> Produced] :
               /\ \A k \in DOMAIN f : f[k] \in ModifiedResults
               /\ \A k, l \in DOMAIN f : k < l => f[k] < f[l]
               /\ \A k \in DOMAIN f : SectionOf(changelog.sections[k], results[f[k]]))

\* C24: the first file was rolled back with a change recorded, the second one
\* was fixed, and the changelog has the one section of the second file.
ChangelogSkipsRolledBack ==
  /\ changelog.reported
  /\ Len(results) = 2
  /\ ~results[1].modified
  /\ results[1].changes # << >>
  /\ results[2].modified
  /\ Len(changelog.sections) = 1
  /\ changelog.sections[1].filename = results[2].filename
  /\ Len(changelog.sections[1].bullets) = 1

\* The discrepancies that name file i, and whether a fix altered its clone.
NamingFile(i) == { k \in 1..Len(discrepancies) : discrepancies[k].path[1] = files[i].name }
CloneAltered(i) == verdicts[i].clone \notin { NoneV, files[i].doc }

\* C25: the result of a loaded file is modified iff a discrepancy of the file
\* altered the clone and the patched clone passed validation; a file that no
\* discrepancy names, or whose discrepancies all change nothing, ends with
\* modified false, the original as fixed_spec and no validation errors;
\* discrepancies that name another file leave no trace in it.
ModifiedIffAlteredAndValid ==
  \A i \in Produced :
    files[i].loads =>
      /\ results[i].modified <=> (CloneAltered(i) /\ verdicts[i].validate = "valid")
      /\ CloneAltered(i) <=> verdicts[i].validate # "not_run"
      /\ NamingFile(i) = {} => verdicts[i].clone = NoneV
      /\ ~CloneAltered(i) =>
           /\ ~results[i].modified
           /\ results[i].fixed_spec = files[i].doc
           /\ results[i].validation_errors = << >>
           /\ results[i].changes = << >>
      /\ \A j \in 1..Len(results[i].changes) :
           \E k \in NamingFile(i) :
             /\ results[i].changes[j].path = discrepancies[k].path
             /\ results[i].changes[j].property = discrepancies[k].property_name
             /\ results[i].changes[j].constraint = discrepancies[k].constraint_type

\* C25: the one discrepancy of the first file changed nothing and left it
\* unmodified, while the discrepancy of the second file fixed that file.
NoOpFileBesideFixedFile ==
  /\ Len(results) = 2
  /\ files[1].loads
  /\ NamingFile(1) = {1}
  /\ NamingFile(2) = {2}
  /\ verdicts[1].clone = files[1].doc
  /\ ~results[1].modified
  /\ results[1].fixed_spec = files[1].doc
  /\ results[2].modified
  /\ results[2].fixed_spec # files[2].doc

\* C28: a result with modified false has an empty changes list, so that the
\* changes of all results are the changes of the emitted documents.
UnmodifiedReportsNoChanges ==
  \A i \in Produced : ~results[i].modified => results[i].changes = << >>

\* Values to try against a schema node: integers and strings on both sides
\* of the declared and of the observed bounds, and the enum members.
SampleValues ==
  { IntV(x) : x \in {-8, -6, -1, 0, 1, 6, 51, 81} }
    \cup { StrV(Repeat("a", n)) : n \in {0, 1, 6, 51, 81} }
    \cup { StrV("b"), StrV("c") }

\* Whether a schema node accepts a value, as far as its minLength, maxLength,
\* minimum, maximum and enum go: a bound applies to the values of its type,
\* an enum, whose members are strings here, to every value.
Accepts(node, v) ==
  LET bound(c) == IF Has(node, c) /\ IsInt(node.d[c]) THEN << node.d[c].n >> ELSE << >>
  IN /\ (v.k = "str" /\ bound("minLength") # << >>) => Len(v.s) >= bound("minLength")[1]
     /\ (v.k = "str" /\ bound("maxLength") # << >>) => Len(v.s) <= bound("maxLength")[1]
     /\ (v.k = "int" /\ bound("minimum") # << >>) => v.n >= bound("minimum")[1]
     /\ (v.k = "int" /\ bound("maximum") # << >>) => v.n <= bound("maximum")[1]
     /\ (Has(node, "enum") /\ IsList(node.d["enum"]))
          => (v.k = "str" /\ v.s \in Range(node.d["enum"].l))

\* C29: a relax fix never makes a schema node stricter: every value the node
\* accepted before the fix is accepted after it, also when the node did not
\* declare the constraint.
RelaxNeverStricter ==
  (last_fix.strategy = "relax" /\ Located) =>
    \A v \in SampleValues :
      Accepts(At(last_fix.spec_before, last_fix.at), v)
        => Accepts(At(last_fix.spec_after, last_fix.at), v)

(***************************************************************************)
(* Properties of the validator, checked under ValidatorSpec                *)
(***************************************************************************)

\* The cases of the last generate_test_cases call, and those of a length or
\* item count n.
Cases == Range(test_cases)
Sized(n) ==
  { t \in Cases : \/ (t.value.k = "str" /\ Len(t.value.s) = n)
                  \/ (t.value.k = "list" /\ Len(t.value.l) = n) }

\* C22: for minLength=N the cases hold a string of length N expected valid
\* and one of length N+5 expected valid; when N > 0 also a string of length
\* N-1 and the empty string, both expected invalid; when N = 0 no case is
\* expected invalid.
MinLengthCases ==
  (generated.called /\ generated.constraint_type = "minLength") =>
    LET N == generated.constraint_value
    IN /\ \E t \in Sized(N) : t.value.k = "str" /\ t.expected_valid
       /\ \E t \in Sized(N + 5) : t.value.k = "str" /\ t.expected_valid
       /\ N > 0 =>
            /\ \E t \in Sized(N - 1) : t.value.k = "str" /\ ~t.expected_valid
            /\ \E t \in Cases : t.value = StrV("") /\ ~t.expected_valid
            /\ \A t \in Sized(N - 1) \cup Sized(0) : ~t.expected_valid
       /\ N = 0 => \A t \in Cases : t.expected_valid

\* C22: the cases of minLength=2 were generated: "aa" and "aaaaaaa" valid,
\* "a" and "" invalid.
MinLengthTwoGenerated ==
  /\ generated.called
  /\ generated.constraint_type = "minLength"
  /\ generated.constraint_value = 2
  /\ Len(test_cases) = 4
  /\ test_cases[2].value = StrV("a")
  /\ ~test_cases[2].expected_valid
  /\ test_cases[4].value = StrV("aaaaaaa")
  /\ test_cases[4].expected_valid

\* Whether a value satisfies a declared bound; the value d units above a
\* declared number.
Satisfies(constraint_type, bound, value) ==
  CASE constraint_type = "maxLength" -> Len(value.s) <= bound
    [] constraint_type = "minItems" -> Len(value.l) >= bound
    [] constraint_type = "maxItems" -> Len(value.l) <= bound
    [] constraint_type = "minimum" -> value.k = bound.k /\ value.n >= bound.n
    [] constraint_type = "maximum" -> value.k = bound.k /\ value.n <= bound.n
    [] OTHER -> TRUE
Above(bound, d) == [bound EXCEPT !.n = @ + d]

\* C23: for maxLength, minimum, maximum, minItems and maxItems and every
\* declared bound the cases hold a value at the bound expected valid and a
\* value one unit past it expected invalid (for minItems when the bound is
\* > 0; for maxLength also length N+100 invalid and the empty string valid),
\* and the expected_valid of every case is whether its value satisfies the
\* bound.
BoundCases ==
  generated.called =>
    LET c == generated.constraint_type
        N == generated.constraint_value
    IN /\ c \in {"maxLength", "maxItems"} =>
            /\ \E t \in Sized(N) : t.expected_valid
            /\ \E t \in Sized(N + 1) : ~t.expected_valid
       /\ c = "maxLength" =>
            /\ \E t \in Sized(N + 100) : ~t.expected_valid
            /\ \E t \in Sized(0) : t.expected_valid
       /\ c = "minItems" =>
            /\ \E t \in Sized(N) : t.expected_valid
            /\ N > 0 => \E t \in Sized(N - 1) : ~t.expected_valid
       /\ c = "minimum" =>
            /\ \E t \in Cases : t.value = N /\ t.expected_valid
            /\ \E t \in Cases : t.value = Above(N, -1) /\ ~t.expected_valid
       /\ c = "maximum" =>
            /\ \E t \in Cases : t.value = N /\ t.expected_valid
            /\ \E t \in Cases : t.value = Above(N, 1) /\ ~t.expected_valid
       /\ c \in {"maxLength", "minimum", "maximum", "minItems", "maxItems"} =>
            \A t \in Cases : t.expected_valid <=> Satisfies(c, N, t.value)

\* C7: compare_results returns no discrepancy iff expected_valid equals
\* api_accepted; otherwise the discrepancy is SPEC_LOOSER iff expected_valid
\* is true and the API rejected, SPEC_STRICTER iff expected_valid is false and
\* the API accepted.
CompareResultsClassifies ==
  compared.called =>
    LET expected == compared.test_case.expected_valid
        accepted == compared.api_accepted
        d == compared.result
    IN /\ d = NoneV <=> expected = accepted
       /\ d # NoneV =>
            /\ d.discrepancy_type \in {"spec_looser", "spec_stricter"}
            /\ d.discrepancy_type = "spec_looser" <=> (expected /\ ~accepted)
            /\ d.discrepancy_type = "spec_stricter" <=> (~expected /\ accepted)

\* C7: a value the spec forbids was accepted by the API and compare_results
\* returned a SPEC_STRICTER discrepancy.
ComparedStricter ==
  /\ compared.called
  /\ ~compared.test_case.expected_valid
  /\ compared.api_accepted
  /\ compared.result # NoneV
  /\ compared.result.discrepancy_type = "spec_stricter"

====
